---- MODULE Spec2Model ----
(***************************************************************************)
(* Model of the Dictation controller of src/dictate.py: the background     *)
(* model loader, the hotkey listener that calls toggle_recording, the      *)
(* capture subprocess, the stop-sequence (readiness wait, transcription,   *)
(* delivery, notifications) and the SIGINT handler.                        *)
(***************************************************************************)
EXTENDS Integers, Sequences, FiniteSets, TLC

(***************************************************************************)
(* Bounds of the model.                                                    *)
(***************************************************************************)
\* number of hotkey events the user sends in one behaviour
MaxToggles == 4

\* the hotkey events, in the order the listener receives them; event k is
\* served by the k-th call of toggle_recording
Calls == 1..MaxToggles

(***************************************************************************)
(* Program constants.                                                      *)
(***************************************************************************)
\* text[:100] in the "Copied!" notification
PreviewLen == 100
\* str(e)[:50] in the "Error" notification
ErrorLen == 50

VARIABLES
    recording,       \* self.recording
    record_process,  \* self.record_process: 0 is None, otherwise the Popen handle
    model,           \* self.model: "None" or "WhisperModel"
    model_loaded,    \* self.model_loaded (threading.Event): is it set
    model_error,     \* self.model_error: <<>> is None, <<s>> is the string s
    running,         \* self.running
    loader,          \* position of the _load_model thread
    pc,              \* pc[k]: position of the k-th toggle_recording call
    text,            \* text[k]: the local `text` of stop_recording
    exc,             \* exc[k]: str(e) of the exception being handled or raised
    live,            \* capture subprocesses that are alive
    spawned,         \* number of capture subprocesses spawned so far
    wav,             \* last_recording.wav: the subprocess that wrote it, 0 if none
    exit_code,       \* -1 while the process runs, otherwise its exit code
    trace,           \* the effects issued so far, in program order
    AUTO_TYPE,       \* CONFIG["auto_type"]
    NOTIFICATIONS,   \* CONFIG["notifications"]
    CONFIG,          \* the string settings of CONFIG, <<>> before load_config ran
    config_file,     \* ~/.config/whisper/config.ini
    installed,       \* the commands `which` finds on the PATH
    main_pc,         \* position of the main thread
    stdout           \* the lines of main, __init__, run and _load_model

vars == <<recording, record_process, model, model_loaded, model_error, running,
          loader, pc, text, exc, live, spawned, wav, exit_code, trace,
          AUTO_TYPE, NOTIFICATIONS, CONFIG, config_file, installed, main_pc,
          stdout>>

ctl == <<recording, record_process, live, spawned, wav>>
mdl == <<model, model_loaded, model_error, loader>>
cfg == <<AUTO_TYPE, NOTIFICATIONS, CONFIG, config_file, installed>>
boot == <<main_pc, stdout>>

(***************************************************************************)
(* Strings.                                                                *)
(***************************************************************************)
RECURSIVE Rep(_, _)
Rep(s, n) == IF n = 0 THEN "" ELSE s \o Rep(s, n - 1)

Min(a, b) == IF a < b THEN a ELSE b

\* s[:n] of Python
Prefix(s, n) == SubSeq(s, 1, Min(n, Len(s)))

RECURSIVE LStrip(_)
LStrip(s) ==
    IF Len(s) > 0 /\ SubSeq(s, 1, 1) = " " THEN LStrip(SubSeq(s, 2, Len(s))) ELSE s

RECURSIVE RStrip(_)
RStrip(s) ==
    IF Len(s) > 0 /\ SubSeq(s, Len(s), Len(s)) = " "
    THEN RStrip(SubSeq(s, 1, Len(s) - 1))
    ELSE s

\* segment.text.strip()
Strip(s) == RStrip(LStrip(s))

\* " ".join(segment.text.strip() for segment in segments)
RECURSIVE JoinSegments(_)
JoinSegments(segs) ==
    IF Len(segs) = 0 THEN ""
    ELSE IF Len(segs) = 1 THEN Strip(segs[1])
    ELSE Strip(segs[1]) \o " " \o JoinSegments(Tail(segs))

\* the characters of the transcripts of the model
Alphabet == " 0123456789abcdefghijklmnopqrstuvwxyz"

\* the UTF-8 code of a character of Alphabet (all are one byte long)
ByteOf(c) ==
    LET i == CHOOSE j \in 1..Len(Alphabet) : SubSeq(Alphabet, j, j) = c
    IN  IF i = 1 THEN 32 ELSE IF i <= 11 THEN 46 + i ELSE 85 + i

CharOf(b) ==
    LET i == IF b = 32 THEN 1 ELSE IF b < 97 THEN b - 46 ELSE b - 85
    IN  SubSeq(Alphabet, i, i)

\* text.encode(): the bytes written to the stdin of xclip
Encode(s) == [i \in 1..Len(s) |-> ByteOf(SubSeq(s, i, i))]

\* what the clipboard holds once xclip has read the bytes: their UTF-8 decoding
RECURSIVE Decode(_)
Decode(bytes) ==
    IF Len(bytes) = 0 THEN "" ELSE CharOf(bytes[1]) \o Decode(Tail(bytes))

\* mutant: the ellipsis is added from 100 characters on
Preview_OffByOne(s) ==
    Prefix(s, PreviewLen) \o (IF Len(s) >= PreviewLen THEN "..." ELSE "")

\* text[:100] + ("..." if len(text) > 100 else "")
Preview(s) == Prefix(s, PreviewLen) \o (IF Len(s) > PreviewLen THEN "..." ELSE "")

\* str(e)[:50]
ErrorBody(e) == Prefix(e, ErrorLen)

\* `if self.model_error:` -- None and the empty string are both false
Truthy(opt) == opt # <<>> /\ opt[1] # ""

(***************************************************************************)
(* Inputs.                                                                 *)
(***************************************************************************)
Text100 == Rep("0123456789", 10)
Text101 == Text100 \o "x"

\* what model.transcribe yields: the texts of the segments
SegmentLists ==
    { <<>>,
      <<"  ">>,
      <<" hello", " world ">>,
      <<" " \o Text100>>,
      <<Text101>> }

\* str(e) of what model.transcribe or the iteration of the segments raises
TranscribeErrors ==
    { "Invalid data found when processing input",
      "[Errno 2] No such file or directory: '/home/u/.cache/whisper/last_recording.wav'" }

\* str(e) of what WhisperModel(...) raises: MemoryError() has the empty message
LoadErrors == { "", "CUDA driver version is insufficient" }

NoSuchFile(cmd) == "[Errno 2] No such file or directory: '" \o cmd \o "'"

\* self.model.transcribe with self.model None
NoneTranscribe == "'NoneType' object has no attribute 'transcribe'"

(***************************************************************************)
(* load_config and the configuration file.                                 *)
(***************************************************************************)
\* the options load_config reads, each in its section
KeyNames == {"model", "device", "compute_type", "key", "auto_type", "notifications"}

\* marks an option the file does not hold
Missing == "<missing>"

\* the values option k may have in the files of the model
FileValues(k) ==
    CASE k = "model" -> {Missing, "small"}
      [] k = "device" -> {Missing, "cuda"}
      [] k = "compute_type" -> {Missing, "float16"}
      [] k = "key" -> {Missing, "<ctrl>+<alt>+d"}
      [] k = "auto_type" -> {Missing, "false", "yes", "maybe"}
      [] k = "notifications" -> {Missing, "off", "maybe"}

\* no file at CONFIG_PATH
NoFile == [exists |-> FALSE, get |-> [k \in KeyNames |-> Missing]]

ConfigFiles ==
    {NoFile} \cup
    { [exists |-> TRUE, get |-> f] :
        f \in { g \in [KeyNames -> UNION {FileValues(k) : k \in KeyNames}] :
                  \A k \in KeyNames : g[k] \in FileValues(k) } }

\* the `defaults` dict of load_config
Defaults ==
    [model |-> "base.en", device |-> "cpu", compute_type |-> "int8",
     key |-> "<alt>+o", auto_type |-> "true", notifications |-> "true"]

\* if CONFIG_PATH.exists(): config.read(CONFIG_PATH)
Parsed(file) == IF file.exists THEN file.get ELSE [k \in KeyNames |-> Missing]

\* config.get(section, option, fallback=...)
ConfigGet(file, k, fallback) ==
    IF Parsed(file)[k] = Missing THEN fallback ELSE Parsed(file)[k]

\* RawConfigParser.BOOLEAN_STATES
TrueWords == {"1", "yes", "true", "on"}
FalseWords == {"0", "no", "false", "off"}

\* config.getboolean raises ValueError for a value that is no boolean word
BooleanRaises(file, k) ==
    Parsed(file)[k] # Missing /\ Parsed(file)[k] \notin TrueWords \cup FalseWords

\* mutant: the fallback of the flags is False
ConfigGetBoolean_FallbackFalse(file, k) ==
    IF Parsed(file)[k] = Missing THEN FALSE ELSE Parsed(file)[k] \in TrueWords

\* config.getboolean(section, option, fallback=True)
ConfigGetBoolean(file, k) ==
    IF Parsed(file)[k] = Missing THEN TRUE ELSE Parsed(file)[k] \in TrueWords

\* the string settings load_config returns
ConfigStrings(file) ==
    [model |-> ConfigGet(file, "model", Defaults.model),
     device |-> ConfigGet(file, "device", Defaults.device),
     compute_type |-> ConfigGet(file, "compute_type", Defaults.compute_type),
     key |-> ConfigGet(file, "key", Defaults.key)]

\* the commands check_dependencies looks for
Tools == {"parecord", "xclip", "xdotool"}

\* pkg = "pulseaudio-utils" if cmd == "parecord" else cmd
PackageOf(cmd) == IF cmd = "parecord" THEN "pulseaudio-utils" ELSE cmd

IsAbsent(cmd) == cmd \notin installed

\* the `missing` list of check_dependencies
MissingTools ==
    SelectSeq(<<"parecord", "xclip">>, IsAbsent)
        \o (IF AUTO_TYPE /\ IsAbsent("xdotool") THEN <<"xdotool">> ELSE <<>>)

VersionLine == "Whisper v0.1.0"
ConfigLine == "Config: ~/.config/whisper/config.ini"
LoadingLine(m) == "Loading Whisper model (" \o m \o ")..."
ListeningLine(key) == "Listening for hotkey: " \o key

\* str.lower on the letters of the messages of the model
UpperCase == "ABCDEFGHIJKLMNOPQRSTUVWXYZ"
LowerCase == "abcdefghijklmnopqrstuvwxyz"

LowerChar(c) ==
    IF \E i \in 1..Len(UpperCase) : SubSeq(UpperCase, i, i) = c
    THEN LET i == CHOOSE i \in 1..Len(UpperCase) : SubSeq(UpperCase, i, i) = c
         IN  SubSeq(LowerCase, i, i)
    ELSE c

RECURSIVE Lower(_)
Lower(str) ==
    IF str = "" THEN ""
    ELSE LowerChar(SubSeq(str, 1, 1)) \o Lower(SubSeq(str, 2, Len(str)))

\* v in line
Contains(line, v) ==
    \E i \in 1..(Len(line) - Len(v) + 1) : SubSeq(line, i, i + Len(v) - 1) = v

HintLine == "Hint: Try setting device = cpu in your config, or install cuDNN."

\* the lines _load_model prints after a successful load
LoadedLines(key) ==
    <<"Model loaded. Ready for dictation!",
      "Press [" \o key \o "] to start/stop recording.",
      "Press Ctrl+C to quit.">>

\* the lines _load_model prints after a failed load
FailedLines(e) ==
    <<"Failed to load model: " \o e>>
        \o (IF Contains(Lower(e), "cudnn") \/ Contains(Lower(e), "cuda")
            THEN <<HintLine>> ELSE <<>>)

(***************************************************************************)
(* Helpers of the actions.                                                 *)
(***************************************************************************)
\* the process has neither exited nor died
Alive == exit_code = -1

Goto(k, label) == pc' = [pc EXCEPT ![k] = label]

\* a call of toggle_recording that is executing
Active(k) == pc[k] \notin {"new", "queued", "returned", "raised"}

\* Dictation.notify: what it adds to the effects when notify-send can be
\* spawned (ok); nothing when notifications are disabled
NotifyLog(title, body, ok) ==
    IF NOTIFICATIONS /\ ok THEN << <<"notify", title, body>> >> ELSE <<>>

\* Dictation.notify: subprocess.run raises when notify-send cannot be spawned
NotifyRaises(ok) == NOTIFICATIONS /\ ~ok

(***************************************************************************)
(* Dictation.__init__: the fields of a controller just constructed.        *)
(***************************************************************************)
Fresh ==
    /\ recording = FALSE
    /\ record_process = 0
    /\ model = "None"
    /\ model_loaded = FALSE
    /\ model_error = <<>>
    /\ running = TRUE
    /\ pc = [k \in Calls |-> "new"]
    /\ text = [k \in Calls |-> ""]
    /\ exc = [k \in Calls |-> ""]
    /\ live = {}
    /\ spawned = 0
    /\ wav = 0
    /\ exit_code = -1
    /\ trace = <<>>

\* the configuration files of the behaviours of the controller: they set
\* nothing but the two flags of the section behavior
FlagFiles ==
    {NoFile} \cup
    { f \in ConfigFiles :
        /\ f.exists
        /\ \A k \in {"model", "device", "compute_type", "key"} : f.get[k] = Missing
        /\ f.get["auto_type"] \in {Missing, "false"}
        /\ f.get["notifications"] \in {Missing, "off"}
        /\ \E k \in KeyNames : f.get[k] # Missing }

(***************************************************************************)
(* The state after construction: main has loaded the configuration, found  *)
(* the commands, printed its lines and returned from Dictation(), the      *)
(* loader thread is started and has not yet run.                           *)
(***************************************************************************)
Init ==
    /\ Fresh
    /\ loader = "start"
    /\ config_file \in FlagFiles
    /\ CONFIG = ConfigStrings(config_file)
    /\ AUTO_TYPE = ConfigGetBoolean(config_file, "auto_type")
    /\ NOTIFICATIONS = ConfigGetBoolean(config_file, "notifications")
    /\ installed = Tools
    /\ main_pc = "constructed"
    /\ stdout = <<VersionLine, ConfigLine, LoadingLine(CONFIG.model)>>

(***************************************************************************)
(* _load_model, on its own thread.                                         *)
(***************************************************************************)
\* WhisperModel(...) returns and self.model is assigned
LoadModelOk ==
    /\ Alive
    /\ loader = "start"
    /\ model' = "WhisperModel"
    /\ loader' = "assigned"
    /\ UNCHANGED <<boot, model_loaded, model_error, running, pc, text, exc, ctl,
                   exit_code, trace, cfg>>

\* mutant: on a failure the event is set before the error is stored
LoadModelFail_EventFirst ==
    /\ Alive
    /\ loader = "start"
    /\ model_loaded' = TRUE
    /\ loader' = "assigned"
    /\ UNCHANGED <<boot, model, model_error, running, pc, text, exc, ctl,
                   exit_code, trace, cfg>>

\* mutant: a failed load is tried again
LoadModelFail_Retry ==
    /\ Alive
    /\ loader = "start"
    /\ \E e \in LoadErrors : model_error' = <<e>>
    /\ loader' \in {"start", "assigned"}
    /\ UNCHANGED <<boot, model, model_loaded, running, pc, text, exc, ctl,
                   exit_code, trace, cfg>>

\* WhisperModel(...) raises e and self.model_error = str(e)
LoadModelFail ==
    /\ Alive
    /\ loader = "start"
    /\ \E e \in LoadErrors : model_error' = <<e>>
    /\ loader' = "assigned"
    /\ UNCHANGED <<boot, model, model_loaded, running, pc, text, exc, ctl,
                   exit_code, trace, cfg>>

\* self.model_loaded.set(), on either path, and the lines printed after it
SetModelLoaded ==
    /\ Alive
    /\ loader = "assigned"
    /\ model_loaded' = TRUE
    /\ loader' = "done"
    /\ stdout' = stdout \o (IF model_error = <<>>
                            THEN LoadedLines(CONFIG.key)
                            ELSE FailedLines(model_error[1]))
    /\ UNCHANGED <<main_pc, model, model_error, running, pc, text, exc, ctl,
                   exit_code, trace, cfg>>

(***************************************************************************)
(* The hotkey listener of Dictation.run.                                   *)
(***************************************************************************)
\* the user presses the hotkey: the event waits for the listener thread
Hotkey(k) ==
    /\ Alive
    /\ main_pc = "run"
    /\ pc[k] = "new"
    /\ \A j \in Calls : j < k => pc[j] # "new"
    /\ Goto(k, "queued")
    /\ UNCHANGED <<boot, running, text, exc, ctl, mdl, exit_code, trace, cfg>>

\* mutant: the listener calls toggle_recording for an event while the call for
\* an earlier event is still executing
Dispatch_Reentrant(k) ==
    /\ Alive
    /\ pc[k] = "queued"
    /\ \A j \in Calls : j < k => pc[j] \notin {"new", "queued"}
    /\ Goto(k, "toggle")
    /\ UNCHANGED <<boot, running, text, exc, ctl, mdl, exit_code, trace, cfg>>

\* the one listener thread calls toggle_recording for the next event once
\* the call for the event before it has returned
Dispatch(k) ==
    /\ Alive
    /\ pc[k] = "queued"
    /\ \A j \in Calls : j < k => pc[j] = "returned"
    /\ Goto(k, "toggle")
    /\ UNCHANGED <<boot, running, text, exc, ctl, mdl, exit_code, trace, cfg>>

\* an exception that leaves toggle_recording ends the listener thread;
\* listener.join() raises it again in main, and the process dies
ListenerRaise(k) ==
    /\ Alive
    /\ pc[k] = "raised"
    /\ exit_code' = 1
    /\ UNCHANGED <<boot, running, pc, text, exc, ctl, mdl, trace, cfg>>

(***************************************************************************)
(* toggle_recording and start_recording.                                   *)
(***************************************************************************)
ToggleRecording(k) ==
    /\ Alive
    /\ pc[k] = "toggle"
    /\ Goto(k, IF recording THEN "stop_check" ELSE "start_check")
    /\ UNCHANGED <<boot, running, text, exc, ctl, mdl, exit_code, trace, cfg>>

\* if self.recording or self.model_error: return
StartCheck(k) ==
    /\ Alive
    /\ pc[k] = "start_check"
    /\ Goto(k, IF recording \/ Truthy(model_error) THEN "returned" ELSE "start_set")
    /\ UNCHANGED <<boot, running, text, exc, ctl, mdl, exit_code, trace, cfg>>

\* self.recording = True; self.temp_file = ...; os.makedirs(...)
StartSet(k) ==
    /\ Alive
    /\ pc[k] = "start_set"
    /\ recording' = TRUE
    /\ \E ok \in BOOLEAN :
         IF ok
         THEN Goto(k, "popen") /\ exc' = exc
         ELSE /\ Goto(k, "raised")
              /\ exc' = [exc EXCEPT ![k] = "[Errno 13] Permission denied"]
    /\ UNCHANGED <<boot, record_process, live, spawned, wav, running, text, mdl,
                   exit_code, trace, cfg>>

\* self.record_process = subprocess.Popen(["parecord", ...]): the
\* subprocess is started with the path of the output file
Popen(k) ==
    /\ Alive
    /\ pc[k] = "popen"
    /\ \E ok \in BOOLEAN :
         IF ok
         THEN /\ spawned' = spawned + 1
              /\ record_process' = spawned + 1
              /\ live' = live \cup {spawned + 1}
              /\ wav' = wav
              /\ trace' = Append(trace, <<"spawn", spawned + 1>>)
              /\ Goto(k, "start_notify")
              /\ exc' = exc
         ELSE /\ Goto(k, "raised")
              /\ exc' = [exc EXCEPT ![k] = NoSuchFile("parecord")]
              /\ UNCHANGED <<spawned, record_process, live, wav, trace>>
    /\ UNCHANGED <<boot, recording, running, text, mdl, exit_code, cfg>>

\* print("Recording..."); self.notify("Recording...", ...)
StartNotify(k) ==
    /\ Alive
    /\ pc[k] = "start_notify"
    /\ \E ok \in BOOLEAN :
         /\ trace' = trace \o << <<"print", "Recording...">> >>
                           \o NotifyLog("Recording...", "Press " \o CONFIG.key \o " to stop", ok)
         /\ IF NotifyRaises(ok)
            THEN Goto(k, "raised") /\ exc' = [exc EXCEPT ![k] = NoSuchFile("notify-send")]
            ELSE Goto(k, "returned") /\ exc' = exc
    /\ UNCHANGED <<boot, running, text, ctl, mdl, exit_code, cfg>>

\* the capture subprocess, running beside the controller, opens the output
\* file and truncates it: from then on the file holds its recording
ParecordOpen ==
    /\ record_process \in live
    /\ wav # record_process
    /\ wav' = record_process
    /\ UNCHANGED <<boot, recording, record_process, live, spawned, running, pc,
                   text, exc, mdl, exit_code, trace, cfg>>

(***************************************************************************)
(* stop_recording.                                                         *)
(***************************************************************************)
\* mutant: the stop-sequence runs whatever the flag
StopCheck_NoGuard(k) ==
    /\ Alive
    /\ pc[k] = "stop_check"
    /\ Goto(k, "stop_clear")
    /\ UNCHANGED <<boot, running, text, exc, ctl, mdl, exit_code, trace, cfg>>

\* if not self.recording: return
StopCheck(k) ==
    /\ Alive
    /\ pc[k] = "stop_check"
    /\ Goto(k, IF ~recording THEN "returned" ELSE "stop_clear")
    /\ UNCHANGED <<boot, running, text, exc, ctl, mdl, exit_code, trace, cfg>>

\* self.recording = False
StopClear(k) ==
    /\ Alive
    /\ pc[k] = "stop_clear"
    /\ recording' = FALSE
    /\ Goto(k, "terminate")
    /\ UNCHANGED <<boot, record_process, live, spawned, wav, running, text, exc, mdl,
                   exit_code, trace, cfg>>

\* mutant: the handle is cleared, the subprocess neither terminated nor waited for
Terminate_Skip(k) ==
    /\ Alive
    /\ pc[k] = "terminate"
    /\ record_process' = 0
    /\ Goto(k, "stop_notify")
    /\ UNCHANGED <<boot, recording, live, spawned, wav, running, text, exc, mdl,
                   exit_code, trace, cfg>>

\* if self.record_process: self.record_process.terminate()
Terminate(k) ==
    /\ Alive
    /\ pc[k] = "terminate"
    /\ IF record_process # 0
       THEN /\ trace' = Append(trace, <<"terminate", record_process>>)
            /\ Goto(k, "proc_wait")
       ELSE /\ trace' = trace
            /\ Goto(k, "stop_notify")
    /\ UNCHANGED <<boot, running, text, exc, ctl, mdl, exit_code, cfg>>

\* mutant: the handle is dropped and the subprocess is left running
ProcWait_Leak(k) ==
    /\ Alive
    /\ pc[k] = "proc_wait"
    /\ record_process' = 0
    /\ Goto(k, "stop_notify")
    /\ UNCHANGED <<boot, recording, live, spawned, wav, running, text, exc, mdl,
                   exit_code, trace, cfg>>

\* self.record_process.wait() returns when the subprocess has exited;
\* self.record_process = None
ProcWait(k) ==
    /\ Alive
    /\ pc[k] = "proc_wait"
    /\ live' = live \ {record_process}
    /\ trace' = Append(trace, <<"exited", record_process>>)
    /\ record_process' = 0
    /\ Goto(k, "stop_notify")
    /\ UNCHANGED <<boot, recording, spawned, wav, running, text, exc, mdl, exit_code, cfg>>

\* mutant: the "Transcribing..." notification is sent after the readiness wait
\* has been entered, that is, not at all before the final outcome
StopNotify_Skipped(k) ==
    /\ Alive
    /\ pc[k] = "stop_notify"
    /\ trace' = Append(trace, <<"print", "Transcribing...">>)
    /\ Goto(k, "wait")
    /\ UNCHANGED <<boot, running, text, exc, ctl, mdl, exit_code, cfg>>

\* print("Transcribing..."); self.notify("Transcribing...", ...)
StopNotify(k) ==
    /\ Alive
    /\ pc[k] = "stop_notify"
    /\ \E ok \in BOOLEAN :
         /\ trace' = trace \o << <<"print", "Transcribing...">> >>
                           \o NotifyLog("Transcribing...", "Processing your speech", ok)
         /\ IF NotifyRaises(ok)
            THEN Goto(k, "raised") /\ exc' = [exc EXCEPT ![k] = NoSuchFile("notify-send")]
            ELSE Goto(k, "wait") /\ exc' = exc
    /\ UNCHANGED <<boot, running, text, ctl, mdl, exit_code, cfg>>

\* mutant: the wait returns although the event is not set
WaitModel_NoWait(k) ==
    /\ Alive
    /\ pc[k] = "wait"
    /\ trace' = Append(trace, <<"ready">>)
    /\ Goto(k, "check_error")
    /\ UNCHANGED <<boot, running, text, exc, ctl, mdl, exit_code, cfg>>

\* self.model_loaded.wait() returns once the event is set
WaitModel(k) ==
    /\ Alive
    /\ pc[k] = "wait"
    /\ model_loaded
    /\ trace' = Append(trace, <<"ready">>)
    /\ Goto(k, "check_error")
    /\ UNCHANGED <<boot, running, text, exc, ctl, mdl, exit_code, cfg>>

\* if self.model_error: print(...); self.notify("Error", ...); return
CheckError(k) ==
    /\ Alive
    /\ pc[k] = "check_error"
    /\ IF Truthy(model_error)
       THEN \E ok \in BOOLEAN :
              /\ trace' = trace
                    \o << <<"print", "Cannot transcribe: model failed to load">> >>
                    \o NotifyLog("Error", "Model failed to load", ok)
              /\ IF NotifyRaises(ok)
                 THEN /\ Goto(k, "raised")
                      /\ exc' = [exc EXCEPT ![k] = NoSuchFile("notify-send")]
                 ELSE Goto(k, "returned") /\ exc' = exc
       ELSE /\ Goto(k, "transcribe")
            /\ UNCHANGED <<trace, exc>>
    /\ UNCHANGED <<boot, running, text, ctl, mdl, exit_code, cfg>>

\* segments, info = self.model.transcribe(self.temp_file, ...);
\* text = " ".join(segment.text.strip() for segment in segments); if text:
Transcribe(k) ==
    /\ Alive
    /\ pc[k] = "transcribe"
    /\ IF model = "None"
       THEN /\ exc' = [exc EXCEPT ![k] = NoneTranscribe]
            /\ Goto(k, "except")
            /\ UNCHANGED <<trace, text>>
       ELSE /\ trace' = Append(trace, <<"transcribe", wav>>)
            /\ \/ \E segs \in SegmentLists :
                    /\ text' = [text EXCEPT ![k] = JoinSegments(segs)]
                    /\ Goto(k, IF JoinSegments(segs) # "" THEN "xclip" ELSE "no_speech")
                    /\ exc' = exc
               \/ \E e \in TranscribeErrors :
                    /\ exc' = [exc EXCEPT ![k] = e]
                    /\ Goto(k, "except")
                    /\ text' = text
    /\ UNCHANGED <<boot, running, ctl, mdl, exit_code, cfg>>

\* process = subprocess.Popen(["xclip", ...]); process.communicate(input=text.encode())
Xclip(k) ==
    /\ Alive
    /\ pc[k] = "xclip"
    /\ \E ok \in BOOLEAN :
         IF ok
         THEN /\ trace' = Append(trace, <<"xclip", Encode(text[k])>>)
              /\ Goto(k, "xdotool")
              /\ exc' = exc
         ELSE /\ exc' = [exc EXCEPT ![k] = NoSuchFile("xclip")]
              /\ Goto(k, "except")
              /\ trace' = trace
    /\ UNCHANGED <<boot, running, text, ctl, mdl, exit_code, cfg>>

\* if AUTO_TYPE: subprocess.run(["xdotool", "type", "--clearmodifiers", text])
Xdotool(k) ==
    /\ Alive
    /\ pc[k] = "xdotool"
    /\ IF AUTO_TYPE
       THEN \E ok \in BOOLEAN :
              IF ok
              THEN /\ trace' = Append(trace, <<"xdotool", text[k]>>)
                   /\ Goto(k, "copied")
                   /\ exc' = exc
              ELSE /\ exc' = [exc EXCEPT ![k] = NoSuchFile("xdotool")]
                   /\ Goto(k, "except")
                   /\ trace' = trace
       ELSE /\ Goto(k, "copied")
            /\ UNCHANGED <<trace, exc>>
    /\ UNCHANGED <<boot, running, text, ctl, mdl, exit_code, cfg>>

\* print(f"Copied: {text}"); self.notify("Copied!", text[:100] + ...)
Copied(k) ==
    /\ Alive
    /\ pc[k] = "copied"
    /\ \E ok \in BOOLEAN :
         /\ trace' = trace \o << <<"print", "Copied: " \o text[k]>> >>
                           \o NotifyLog("Copied!", Preview(text[k]), ok)
         /\ IF NotifyRaises(ok)
            THEN Goto(k, "except") /\ exc' = [exc EXCEPT ![k] = NoSuchFile("notify-send")]
            ELSE Goto(k, "returned") /\ exc' = exc
    /\ UNCHANGED <<boot, running, text, ctl, mdl, exit_code, cfg>>

\* print("No speech detected"); self.notify("No speech detected", ...)
NoSpeech(k) ==
    /\ Alive
    /\ pc[k] = "no_speech"
    /\ \E ok \in BOOLEAN :
         /\ trace' = trace \o << <<"print", "No speech detected">> >>
                           \o NotifyLog("No speech detected", "Try speaking louder", ok)
         /\ IF NotifyRaises(ok)
            THEN Goto(k, "except") /\ exc' = [exc EXCEPT ![k] = NoSuchFile("notify-send")]
            ELSE Goto(k, "returned") /\ exc' = exc
    /\ UNCHANGED <<boot, running, text, ctl, mdl, exit_code, cfg>>

\* except Exception as e: print(f"Error: {e}"); self.notify("Error", str(e)[:50], ...)
Except(k) ==
    /\ Alive
    /\ pc[k] = "except"
    /\ \E ok \in BOOLEAN :
         /\ trace' = trace \o << <<"print", "Error: " \o exc[k]>> >>
                           \o NotifyLog("Error", ErrorBody(exc[k]), ok)
         /\ IF NotifyRaises(ok)
            THEN Goto(k, "raised") /\ exc' = [exc EXCEPT ![k] = NoSuchFile("notify-send")]
            ELSE Goto(k, "returned") /\ exc' = exc
    /\ UNCHANGED <<boot, running, text, ctl, mdl, exit_code, cfg>>

(***************************************************************************)
(* Dictation.stop, called by the SIGINT handler of main.                   *)
(***************************************************************************)
\* self.running = False; os._exit(0)
Stop ==
    /\ Alive
    /\ main_pc \in {"handler", "run"}
    /\ running' = FALSE
    /\ exit_code' = 0
    /\ UNCHANGED <<boot, pc, text, exc, ctl, mdl, trace, cfg>>

(***************************************************************************)
(* The module level and main.                                              *)
(***************************************************************************)
\* CONFIG = load_config() and the settings read from it, at import
LoadConfig ==
    /\ Alive
    /\ main_pc = "import"
    /\ IF BooleanRaises(config_file, "auto_type")
            \/ BooleanRaises(config_file, "notifications")
       THEN /\ exit_code' = 1
            /\ UNCHANGED <<CONFIG, AUTO_TYPE, NOTIFICATIONS, main_pc>>
       ELSE /\ CONFIG' = ConfigStrings(config_file)
            /\ AUTO_TYPE' = ConfigGetBoolean(config_file, "auto_type")
            /\ NOTIFICATIONS' = ConfigGetBoolean(config_file, "notifications")
            /\ main_pc' = "main"
            /\ exit_code' = exit_code
    /\ UNCHANGED <<config_file, installed, stdout, running, pc, text, exc, ctl,
                   mdl, trace>>

\* main: print(f"Whisper v{__version__}"); print(f"Config: {CONFIG_PATH}")
MainPrint ==
    /\ Alive
    /\ main_pc = "main"
    /\ stdout' = stdout \o <<VersionLine, ConfigLine>>
    /\ main_pc' = "check"
    /\ UNCHANGED <<running, pc, text, exc, ctl, mdl, exit_code, trace, cfg>>

\* mutant: the missing commands are listed and main goes on
CheckDependencies_NoExit ==
    /\ Alive
    /\ main_pc = "check"
    /\ stdout' = stdout \o (IF MissingTools # <<>> THEN <<"Missing dependencies:">> ELSE <<>>)
    /\ main_pc' = "construct"
    /\ UNCHANGED <<running, pc, text, exc, ctl, mdl, exit_code, trace, cfg>>

\* check_dependencies: sys.exit(1) when a command is missing
CheckDependencies ==
    /\ Alive
    /\ main_pc = "check"
    /\ IF MissingTools # <<>>
       THEN /\ stdout' = stdout \o <<"Missing dependencies:">>
                \o [i \in 1..Len(MissingTools) |->
                      "  " \o MissingTools[i] \o " - install with: sudo apt install "
                           \o PackageOf(MissingTools[i])]
            /\ exit_code' = 1
            /\ main_pc' = main_pc
       ELSE /\ main_pc' = "construct"
            /\ UNCHANGED <<stdout, exit_code>>
    /\ UNCHANGED <<running, pc, text, exc, ctl, mdl, trace, cfg>>

\* dictation = Dictation(): the fields are set, the line is printed and the
\* loader thread is started
Construct ==
    /\ Alive
    /\ main_pc = "construct"
    /\ recording' = FALSE
    /\ record_process' = 0
    /\ model' = "None"
    /\ model_loaded' = FALSE
    /\ model_error' = <<>>
    /\ running' = TRUE
    /\ loader' = "start"
    /\ UNCHANGED <<pc, text, exc, live, spawned, wav, exit_code, trace>>
    /\ stdout' = Append(stdout, LoadingLine(CONFIG.model))
    /\ main_pc' = "constructed"
    /\ UNCHANGED cfg

\* signal.signal(signal.SIGINT, handle_sigint)
InstallHandler ==
    /\ Alive
    /\ main_pc = "constructed"
    /\ main_pc' = "handler"
    /\ UNCHANGED <<stdout, running, pc, text, exc, ctl, mdl, exit_code, trace, cfg>>

\* dictation.run(): the line is printed and the listener is started
Run ==
    /\ Alive
    /\ main_pc = "handler"
    /\ stdout' = Append(stdout, ListeningLine(CONFIG.key))
    /\ main_pc' = "run"
    /\ UNCHANGED <<running, pc, text, exc, ctl, mdl, exit_code, trace, cfg>>

\* SIGINT before the handler is installed: KeyboardInterrupt ends main
SigintDefault ==
    /\ Alive
    /\ main_pc \notin {"handler", "run"}
    /\ exit_code' = 130
    /\ UNCHANGED <<boot, running, pc, text, exc, ctl, mdl, trace, cfg>>

(***************************************************************************)
(* The specification of the controller.                                    *)
(***************************************************************************)
Next ==
    \/ InstallHandler
    \/ Run
    \/ SigintDefault
    \/ ParecordOpen
    \/ LoadModelOk
    \/ LoadModelFail
    \/ SetModelLoaded
    \/ Stop
    \/ \E k \in Calls : Hotkey(k)
    \/ \E k \in Calls : Dispatch(k)
    \/ \E k \in Calls : ListenerRaise(k)
    \/ \E k \in Calls : ToggleRecording(k)
    \/ \E k \in Calls : StartCheck(k)
    \/ \E k \in Calls : StartSet(k)
    \/ \E k \in Calls : Popen(k)
    \/ \E k \in Calls : StartNotify(k)
    \/ \E k \in Calls : StopCheck(k)
    \/ \E k \in Calls : StopClear(k)
    \/ \E k \in Calls : Terminate(k)
    \/ \E k \in Calls : ProcWait(k)
    \/ \E k \in Calls : StopNotify(k)
    \/ \E k \in Calls : WaitModel(k)
    \/ \E k \in Calls : CheckError(k)
    \/ \E k \in Calls : Transcribe(k)
    \/ \E k \in Calls : Xclip(k)
    \/ \E k \in Calls : Xdotool(k)
    \/ \E k \in Calls : Copied(k)
    \/ \E k \in Calls : NoSpeech(k)
    \/ \E k \in Calls : Except(k)

Spec == Init /\ [][Next]_vars

(***************************************************************************)
(* The specification of the controller with stop_recording called          *)
(* directly, in any state and not only by toggle_recording while           *)
(* recording.                                                              *)
(***************************************************************************)
\* stop_recording is called on the listener thread, between two calls
CallStopRecording(k) ==
    /\ Alive
    /\ pc[k] = "queued"
    /\ \A j \in Calls : j < k => pc[j] = "returned"
    /\ Goto(k, "stop_check")
    /\ UNCHANGED <<boot, running, text, exc, ctl, mdl, exit_code, trace, cfg>>

ApiNext ==
    \/ Next
    \/ \E k \in Calls : CallStopRecording(k)

ApiSpec == Init /\ [][ApiNext]_vars

(***************************************************************************)
(* The specification of the startup: from the import of the module to the  *)
(* start of the listener, over every configuration file and every set of   *)
(* installed commands.                                                     *)
(***************************************************************************)
StartupInit ==
    /\ Fresh
    /\ loader = "unstarted"
    /\ config_file \in ConfigFiles
    /\ installed \in SUBSET Tools
    /\ CONFIG = <<>>
    /\ AUTO_TYPE = FALSE
    /\ NOTIFICATIONS = FALSE
    /\ main_pc = "import"
    /\ stdout = <<>>

StartupNext ==
    \/ LoadConfig
    \/ MainPrint
    \/ CheckDependencies
    \/ Construct
    \/ InstallHandler
    \/ Run
    \/ SigintDefault
    \/ Stop
    \/ LoadModelOk
    \/ LoadModelFail
    \/ SetModelLoaded

StartupSpec == StartupInit /\ [][StartupNext]_vars

(***************************************************************************)
(* Vocabulary of the properties.                                           *)
(***************************************************************************)
StartLabels == {"start_check", "start_set", "popen", "start_notify"}

AfterWait ==
    {"check_error", "transcribe", "xclip", "xdotool", "copied", "no_speech", "except"}

StopLabels ==
    {"stop_check", "stop_clear", "terminate", "proc_wait", "stop_notify", "wait"}
        \cup AfterWait

Last(s) == s[Len(s)]

IsNotify(e) == e[1] = "notify"
IsSession(e) == e[1] \in {"spawn", "exited"}
IsTranscribe(e) == e[1] = "transcribe"

\* the notifications issued so far, in the order of their issue
Notifications == SelectSeq(trace, IsNotify)

\* the spawns and exits of capture subprocesses so far
SessionEvents == SelectSeq(trace, IsSession)

\* the listener has called toggle_recording for event k
Started(k) == pc[k] \notin {"new", "queued"}

\* no call of toggle_recording is executing
Quiescent == \A k \in Calls : ~Active(k)

(***************************************************************************)
(* C1: whatever the toggles and the outcome of the model load, at most one *)
(* capture subprocess is alive at any time, the handle held is that        *)
(* subprocess, and sessions alternate: a capture subprocess is spawned     *)
(* only after the one before it has exited.                                *)
(***************************************************************************)
C1_SingleSession ==
    /\ Cardinality(live) <= 1
    /\ record_process # 0 => live = {record_process}
    /\ \A i \in 1..Len(SessionEvents) :
         /\ SessionEvents[i][1] = (IF i % 2 = 1 THEN "spawn" ELSE "exited")
         /\ SessionEvents[i][2] = (i + 1) \div 2

\* a second session is live after the first one was stopped
C1_Witness == spawned = 2 /\ live = {2} /\ recording

C3_RecordingIffSession ==
    Quiescent =>
        /\ recording => (record_process # 0 /\ record_process \in live)
        /\ ~recording => record_process = 0

(***************************************************************************)
(* C4: once the model load has failed, a toggle received in Idle returns   *)
(* without changing the state or spawning a subprocess, and a stop-sequence*)
(* that finds the failure after the readiness wait emits the error outcome *)
(* and returns, the controller Idle, without transcribing or delivering.   *)
(***************************************************************************)
C4_Step(k) ==
    /\ (pc[k] = "start_check" /\ model_error # <<>> /\ pc'[k] # pc[k])
         => (pc'[k] = "returned" /\ UNCHANGED <<recording, spawned>>)
    /\ (pc[k] = "check_error" /\ model_error # <<>> /\ pc'[k] # pc[k])
         => /\ pc'[k] = "returned"
            /\ ~recording' /\ record_process' = 0
            /\ Last(trace') = (IF NOTIFICATIONS
                               THEN <<"notify", "Error", "Model failed to load">>
                               ELSE <<"print", "Cannot transcribe: model failed to load">>)

C4_LoadFailureShortCircuits == [][\A k \in Calls : C4_Step(k)]_vars

(***************************************************************************)
(* C5: when spawning the capture subprocess fails, the controller is back  *)
(* in Idle once start_recording is left: recording is False and no handle  *)
(* is held.                                                                *)
(***************************************************************************)
C5_SpawnFailureRollsBack ==
    \A k \in Calls :
        (exc[k] = NoSuchFile("parecord") /\ ~Active(k))
            => (~recording /\ record_process = 0)

(***************************************************************************)
(* C6: an exception of the transcription or of the delivery is handled     *)
(* inside stop_recording: the handler issues the error notification, its   *)
(* body the first 50 characters of the message at most, and returns with   *)
(* the controller Idle, no exception leaving toggle_recording.             *)
(***************************************************************************)
C6_Step(k) ==
    (pc[k] = "except" /\ pc'[k] # pc[k])
        => /\ pc'[k] = "returned"
           /\ ~recording' /\ record_process' = 0
           /\ NOTIFICATIONS =>
                /\ Last(trace')[1] = "notify" /\ Last(trace')[2] = "Error"
                /\ Len(Last(trace')[3]) <= 50
                /\ Last(trace')[3] = SubSeq(exc[k], 1, Len(Last(trace')[3]))

C6_ExceptionsAbsorbed == [][\A k \in Calls : C6_Step(k)]_vars

(***************************************************************************)
(* C7: start_recording never waits for the model: each of its steps can be *)
(* taken while the model is loading.  The readiness wait of stop_recording *)
(* returns only when the event is set, a call is past the wait only with   *)
(* the event set, and model.transcribe has run only on a loaded model.     *)
(***************************************************************************)
C7_TranscribeAfterReady ==
    /\ \A k \in Calls :
         /\ pc[k] \in AfterWait => model_loaded
         /\ (Alive /\ pc[k] = "wait") => (ENABLED WaitModel(k) <=> model_loaded)
         /\ (Alive /\ pc[k] = "start_check") => ENABLED StartCheck(k)
         /\ (Alive /\ pc[k] = "start_set") => ENABLED StartSet(k)
         /\ (Alive /\ pc[k] = "popen") => ENABLED Popen(k)
         /\ (Alive /\ pc[k] = "start_notify") => ENABLED StartNotify(k)
    /\ (\E i \in 1..Len(trace) : IsTranscribe(trace[i]))
         => (model_loaded /\ model = "WhisperModel" /\ model_error = <<>>)

\* a recording was started while the model was loading and its stop-sequence
\* is blocked in the readiness wait
C7_Witness ==
    \E k \in Calls :
        /\ pc[k] = "wait" /\ ~model_loaded /\ loader = "start"
        /\ \E i \in 1..Len(trace) : trace[i] = <<"spawn", 1>>

(***************************************************************************)
(* C8: the effects of every toggle cycle are issued in the order spawn,    *)
(* "Recording..." notice, terminate and exit of the capture subprocess,    *)
(* "Transcribing..." notice, readiness, transcription, clipboard, typing,  *)
(* final outcome; a new cycle starts only after the final outcome of the   *)
(* one before.  The notifications are issued in the order Recording,       *)
(* Transcribing, final outcome, cycle after cycle.                         *)
(***************************************************************************)
Rank(e) ==
    CASE e[1] = "spawn" -> 1
      [] e[1] = "print" /\ e[2] = "Recording..." -> 2
      [] e[1] = "notify" /\ e[2] = "Recording..." -> 3
      [] e[1] = "terminate" -> 4
      [] e[1] = "exited" -> 5
      [] e[1] = "print" /\ e[2] = "Transcribing..." -> 6
      [] e[1] = "notify" /\ e[2] = "Transcribing..." -> 7
      [] e[1] = "ready" -> 8
      [] e[1] = "transcribe" -> 9
      [] e[1] = "xclip" -> 10
      [] e[1] = "xdotool" -> 11
      [] e[1] = "notify" /\ e[2] \in {"Copied!", "No speech detected", "Error"} -> 13
      [] OTHER -> 12

\* may an effect of rank b directly follow one of rank a
Follows(a, b) ==
    CASE a \in {1, 3, 4, 5, 7} -> b = a + 1
      [] a \in {2, 6} -> b = (IF NOTIFICATIONS THEN a + 1 ELSE a + 2)
      [] a = 8 -> b \in {9, 12}
      [] a = 9 -> b \in {10, 12}
      [] a = 10 -> b \in {11, 12}
      [] a = 11 -> b = 12
      [] a = 12 -> b = (IF NOTIFICATIONS THEN 13 ELSE 1) \/ (NOTIFICATIONS /\ b = 12)
      [] OTHER -> b = 1

NotifyStage(e) ==
    IF e[2] = "Recording..." THEN 1 ELSE IF e[2] = "Transcribing..." THEN 2 ELSE 3

C8_EffectsInOrder ==
    /\ trace # <<>> => Rank(trace[1]) = 1
    /\ \A i \in 1..(Len(trace) - 1) : Follows(Rank(trace[i]), Rank(trace[i + 1]))
    /\ \A i \in 1..Len(Notifications) :
         NotifyStage(Notifications[i]) = ((i - 1) % 3) + 1

\* two complete cycles, the first one delivered
C8_Witness ==
    /\ Len(Notifications) = 6
    /\ Notifications[3][2] = "Copied!"

(***************************************************************************)
(* C9: when the transcript is empty, nothing is delivered (no clipboard    *)
(* write, no keystrokes) and the cycle ends with the "No speech detected"  *)
(* outcome, not with an error.                                             *)
(***************************************************************************)
C9_Step(k) ==
    /\ pc[k] = "no_speech" => (text[k] = "" /\ Last(trace)[1] = "transcribe")
    /\ (pc[k] = "no_speech" /\ pc'[k] # pc[k])
         => /\ pc'[k] = "returned"
            /\ Last(trace') = (IF NOTIFICATIONS
                               THEN <<"notify", "No speech detected", "Try speaking louder">>
                               ELSE <<"print", "No speech detected">>)

C9_EmptyTranscriptNoSpeech == [][\A k \in Calls : C9_Step(k)]_vars

(***************************************************************************)
(* C10: for a non-empty transcript, the clipboard holds exactly the text,  *)
(* the keystroke simulation receives exactly the text when and only when   *)
(* auto-type is enabled, and the body of the "Copied!" notification is the *)
(* text when it has at most 100 characters and otherwise its first 100     *)
(* characters followed by "...".                                           *)
(***************************************************************************)
C10_Delivery ==
    \A k \in Calls :
        /\ pc[k] \in {"xclip", "xdotool", "copied"} => text[k] # ""
        /\ pc[k] = "xdotool" =>
             (Last(trace)[1] = "xclip" /\ Decode(Last(trace)[2]) = text[k])
        /\ pc[k] = "copied" =>
             IF AUTO_TYPE
             THEN /\ Last(trace) = <<"xdotool", text[k]>>
                  /\ trace[Len(trace) - 1][1] = "xclip"
                  /\ Decode(trace[Len(trace) - 1][2]) = text[k]
             ELSE Last(trace)[1] = "xclip" /\ Decode(Last(trace)[2]) = text[k]
        /\ (pc[k] = "returned" /\ (\A j \in Calls : j > k => ~Started(j))
                /\ trace # <<>> /\ Last(trace)[1] = "notify"
                /\ Last(trace)[2] = "Copied!") =>
             Last(trace)[3] = (IF Len(text[k]) <= 100
                               THEN text[k]
                               ELSE SubSeq(text[k], 1, 100) \o "...")
        /\ ~AUTO_TYPE => \A i \in 1..Len(trace) : trace[i][1] # "xdotool"

\* a text of exactly 100 characters was delivered, typed and shown whole
C10_Witness ==
    \E k \in Calls :
        /\ pc[k] = "returned" /\ Len(text[k]) = 100
        /\ Last(trace) = <<"notify", "Copied!", text[k]>>
        /\ trace[Len(trace) - 2] = <<"xdotool", text[k]>>

(***************************************************************************)
(* C11: a failure of a delivery backend (xclip, xdotool, notify-send)      *)
(* never aborts the toggle cycle: no call of toggle_recording has been     *)
(* left by, or thrown into its except block by, the failure to run one of  *)
(* the three commands.                                                     *)
(***************************************************************************)
DeliveryErrors == {NoSuchFile("notify-send"), NoSuchFile("xclip"), NoSuchFile("xdotool")}

C11_DeliveryNeverAborts ==
    \A k \in Calls : pc[k] \in {"raised", "except"} => exc[k] \notin DeliveryErrors

(***************************************************************************)
(* C12: the model load is one-shot.  The loader thread never starts again  *)
(* once it is done, model_loaded is set by the loader alone, once, and is  *)
(* never cleared; model is written at most once and never changed; after a *)
(* failure model_error is kept, model stays None, and nothing changes the  *)
(* outcome once the event is set.                                          *)
(***************************************************************************)
C12_Step ==
    /\ model # "None" => model' = model
    /\ model_error # <<>> => (model_error' = model_error /\ model' = "None")
    /\ model_loaded => (model_loaded' /\ model' = model /\ model_error' = model_error)
    /\ model_loaded' # model_loaded => (loader = "assigned" /\ loader' = "done")
    /\ loader = "done" => loader' = "done"
    /\ loader = "assigned" => loader' \in {"assigned", "done"}

C12_LoadOnce == [][C12_Step]_vars

\* a failed load was signalled and two toggles ran after it on the failure
C12_Witness ==
    /\ model_loaded /\ loader = "done"
    /\ model = "None"
    /\ model_error = <<"CUDA driver version is insufficient">>
    /\ pc[1] = "returned" /\ pc[2] = "returned"

(***************************************************************************)
(* C13: in every stop-transition the capture subprocess has been asked to  *)
(* terminate and has exited before the transcription: from the             *)
(* "Transcribing..." notice on no capture subprocess is alive and no       *)
(* handle is held, and every transcription in the effects log comes after  *)
(* the terminate request and the exit of every subprocess spawned before.  *)
(***************************************************************************)
C13_CaptureExitedBeforeTranscribe ==
    /\ \A k \in Calls :
         pc[k] \in {"stop_notify", "wait"} \cup AfterWait
             => (live = {} /\ record_process = 0)
    /\ \A i \in 1..Len(trace) :
         IsTranscribe(trace[i]) =>
             \A j \in 1..(i - 1) :
                 trace[j][1] = "spawn" =>
                     \E a, b \in (j + 1)..(i - 1) :
                         /\ a < b
                         /\ trace[a] = <<"terminate", trace[j][2]>>
                         /\ trace[b] = <<"exited", trace[j][2]>>

\* the second session was recorded, stopped and is being transcribed
C13_Witness ==
    \E k \in Calls :
        /\ pc[k] \in {"xclip", "no_speech"}
        /\ Last(trace)[1] = "transcribe"
        /\ \E j \in 1..Len(trace) : trace[j] = <<"exited", 2>>

(***************************************************************************)
(* C14: stop_recording called while no capture session is active (no       *)
(* handle held, no capture subprocess alive) is a no-op: it returns at     *)
(* once, changes no field, terminates no process, issues no notification   *)
(* and runs no transcription.                                              *)
(***************************************************************************)
C14_Step(k) ==
    (pc[k] = "stop_check" /\ record_process = 0 /\ live = {} /\ pc'[k] # pc[k])
        => /\ pc'[k] = "returned"
           /\ UNCHANGED <<recording, record_process, live, spawned, wav, mdl,
                          text, exc, trace, exit_code>>

C14_StopIdempotent == [][\A k \in Calls : C14_Step(k)]_vars

\* stop_recording was called twice with no session ever started and both
\* calls returned with nothing done
C14_Witness ==
    /\ pc[1] = "returned" /\ pc[2] = "returned"
    /\ trace = <<>> /\ model_error = <<>> /\ ~recording /\ spawned = 0

(***************************************************************************)
(* C15: a SIGINT is safe in every state of the controller: whenever it is  *)
(* delivered the process exits at once with exit code 0, and no step of    *)
(* the controller, of the loader or of main follows the exit.              *)
(***************************************************************************)
C15_Step ==
    /\ (Stop \/ SigintDefault) => exit_code' = 0
    /\ ~Alive => UNCHANGED <<boot, pc, recording, record_process, spawned, running,
                             text, exc, mdl, trace, exit_code>>

C15_SigintExitsZero == [][C15_Step]_vars

(***************************************************************************)
(* C16: when a required command is absent at startup (parecord, xclip, and *)
(* xdotool when auto-type is on) the process exits with code 1 in          *)
(* check_dependencies: the controller is never constructed, the loader is  *)
(* never started and the listener never runs.  When every required command *)
(* is present, check_dependencies returns and the startup goes on.         *)
(***************************************************************************)
RequiredTools ==
    {"parecord", "xclip"}
        \cup (IF ConfigGetBoolean(config_file, "auto_type") THEN {"xdotool"} ELSE {})

C16_Step ==
    CheckDependencies =>
        IF RequiredTools \subseteq installed
        THEN main_pc' = "construct" /\ exit_code' = -1
        ELSE exit_code' = 1 /\ main_pc' = "check" /\ loader' = "unstarted"

C16_MissingToolExits ==
    /\ [](~(RequiredTools \subseteq installed) =>
            /\ main_pc \in {"import", "main", "check"}
            /\ loader = "unstarted"
            /\ \A k \in Calls : pc[k] = "new"
            /\ exit_code # 0)
    /\ [][C16_Step]_vars

\* auto-type is on, xdotool alone is absent, and the process has exited with 1
C16_Witness ==
    /\ AUTO_TYPE /\ installed = {"parecord", "xclip"}
    /\ main_pc = "check" /\ exit_code = 1
    /\ loader = "unstarted"
    /\ Last(stdout) = "  xdotool - install with: sudo apt install xdotool"

(***************************************************************************)
(* C17 as stated: with no configuration file the settings are the built-in *)
(* defaults model=base.en, device=cpu, compute_type=int8, key=<alt>+o,     *)
(* auto_type=true, notifications=true, and once the startup is over each   *)
(* of these values has been printed.                                       *)
(***************************************************************************)
Printed(v) == \E n \in 1..Len(stdout) : Contains(stdout[n], v)

\* a flag as print shows it, or as the file spells it
PrintedFlag(b) == IF b THEN Printed("True") \/ Printed("true")
                  ELSE Printed("False") \/ Printed("false")

IsStartupLine(l) ==
    \A e \in LoadErrors :
        l \notin { LoadedLines(CONFIG.key)[n] : n \in 1..3 }
                    \cup { FailedLines(e)[n] : n \in 1..Len(FailedLines(e)) }

IsFinal(e) ==
    e[1] = "notify" /\ e[2] \in {"Copied!", "No speech detected", "Error"}

\* the effects since the latest "Transcribing..." line
SinceStop(log) ==
    LET starts == {i \in 1..Len(log) : log[i] = <<"print", "Transcribing...">>}
    IN  IF starts = {} THEN <<>>
        ELSE SubSeq(log, CHOOSE i \in starts : \A j \in starts : j <= i, Len(log))

C18_Step(k) ==
    /\ (pc[k] \in StopLabels \ {"stop_check"} /\ pc'[k] # pc[k]) =>
         /\ pc'[k] \in StopLabels \cup {"returned"}
         /\ pc'[k] = "returned" =>
              /\ ~recording' /\ record_process' = 0
              /\ NOTIFICATIONS => Len(SelectSeq(SinceStop(trace'), IsFinal)) = 1
    /\ (pc[k] = "wait" /\ pc'[k] # pc[k]) => model_loaded

C18_StopCompletes == [][\A k \in Calls : C18_Step(k)]_vars

(***************************************************************************)
(* C19: whenever model_loaded is set, exactly one outcome is recorded:     *)
(* model holds a handle and model_error is None, or model_error is set and *)
(* model is None.  The outcome is written before the event is set, so a    *)
(* call past the readiness wait reads the final outcome, and so does every *)
(* call that starts once the event is set.                                 *)
(***************************************************************************)
OutcomeRecorded ==
    \/ (model = "WhisperModel" /\ model_error = <<>>)
    \/ (model = "None" /\ model_error # <<>>)

C19_OutcomeBeforeEvent ==
    /\ model_loaded => OutcomeRecorded
    /\ loader = "assigned" => OutcomeRecorded
    /\ loader = "start" => (model = "None" /\ model_error = <<>> /\ ~model_loaded)
    /\ \A k \in Calls : pc[k] \in AfterWait => (model_loaded /\ OutcomeRecorded)

\* a stop-sequence woke from the readiness wait and reads the failure
C19_Witness ==
    \E k \in Calls :
        /\ pc[k] = "check_error"
        /\ model = "None"
        /\ model_error = <<"CUDA driver version is insufficient">>

(***************************************************************************)
(* C20: every transcription reads the audio written by the capture session *)
(* its own toggle cycle has just stopped: the file transcribed was written *)
(* by the subprocess whose exit is the latest session event before the     *)
(* transcription, never by an earlier one and never left from before.      *)
(***************************************************************************)
C20_TranscribesOwnSession ==
    \A i \in 1..Len(trace) :
        IsTranscribe(trace[i]) =>
            \E j \in 1..(i - 1) :
                /\ trace[j] = <<"exited", trace[i][2]>>
                /\ \A m \in (j + 1)..(i - 1) : ~IsSession(trace[m])

====
